---- MODULE Spec2Model ----
(***************************************************************************)
(* Model of the Merit Aktiva API client (client.go): the request-signing   *)
(* pipeline (GetEndpointURL, NewRequest, GenerateSignature) and the        *)
(* response pipeline (Do, CheckResponse, ErrorResponse).                   *)
(*                                                                         *)
(* Strings are TLA+ strings and \o is Go's string/byte concatenation.      *)
(* Two specifications share the client state c:                            *)
(*   SpecRequest - the setters, GetEndpointURL and NewRequest;             *)
(*   SpecDo      - one call of Do at a time, statement group by statement  *)
(*                 group, followed by a call of Error() on what it         *)
(*                 returned.                                               *)
(***************************************************************************)
EXTENDS Integers, Sequences, FiniteSets, TLC

VARIABLES
    c,          \* the Client struct (client.go:62-82)
    now,        \* the wall clock read by time.Now(), in ticks
    last,       \* request side: the last call made on the client as it is
                \* configured now (its arguments, what it returned)
    pc,         \* Do: position in the function body
    call,       \* Do: the arguments (req, responseBody) of the running call
    httpResp,   \* Do: the *http.Response the transport returned (or nil)
    wire,       \* Do: the body stream handed out by the transport
    err,        \* Do: the local variable err
    ret,        \* Do: the values placed by the return statement
    log,        \* Do: the observable events of the running call, in order
    described   \* the outcome of calling Error() on the returned error

vars == <<c, now, last, pc, call, httpResp, wire, err, ret, log, described>>

requestVars == <<now, last>>
doVars == <<pc, call, httpResp, wire, err, ret, log, described>>

\* ------------------------------------------------------------------------
\* Bounds of the model
\* ------------------------------------------------------------------------

\* the clock runs from 0 to MaxClock ticks
MaxClock == 4

\* ------------------------------------------------------------------------
\* Package constants (client.go:26-39)
\* ------------------------------------------------------------------------

libraryVersion == "0.0.1"
userAgent == "go-merit-aktiva/" \o libraryVersion
mediaType == "application/json"
charset == "utf-8"

\* A piece of literal text of a path or of a path template.
Text(s) == [k |-> "text", s |-> s]

\* A url.URL. Path is the sequence of its pieces, RawQuery the sequence of
\* its <<name, value>> parameters.
BaseURL == [Scheme |-> "https", Host |-> "aktiva.merit.ee",
            Path |-> <<Text("/api/v1/")>>, RawQuery |-> <<>>]

nil == [t |-> "nil"]

\* errors.New(msg), fmt.Errorf(...): an error value with its message
Err(msg) == [t |-> "error", msg |-> msg]

\* ------------------------------------------------------------------------
\* Input domains
\* ------------------------------------------------------------------------

APIIDs == {"id-A", "id-B"}
APIKeys == {"key-1", "key-2"}
MediaTypes == {mediaType, "text/xml"}
Charsets == {charset, "latin1"}
UserAgents == {userAgent, "custom-agent/2"}

\* ------------------------------------------------------------------------
\* The client: NewClient and the setters (client.go:42-168)
\* ------------------------------------------------------------------------

\* NewClient(httpClient, apiID, apiKey). onRequestCompleted has no setter in
\* client.go; it is an unexported field assigned from inside the package, so
\* a client may or may not have one (cb stands for a configured callback).
NewClient(apiID, apiKey, cb) ==
    [apiID |-> apiID, apiKey |-> apiKey, baseURL |-> BaseURL,
     debug |-> FALSE, userAgent |-> userAgent, mediaType |-> mediaType,
     charset |-> charset, disallowUnknownFields |-> FALSE,
     onRequestCompleted |-> cb]

Idle == pc = "idle"

\* no call has been made on the client as it is configured now
NoLast == [op |-> "none"]

SetDebug(debug) ==
    /\ Idle
    /\ c' = [c EXCEPT !.debug = debug]
    /\ UNCHANGED <<requestVars, doVars>>

SetDisallowUnknownFields(b) ==
    /\ Idle
    /\ c' = [c EXCEPT !.disallowUnknownFields = b]
    /\ UNCHANGED <<requestVars, doVars>>

SetAPIID(apiID) ==
    /\ c' = [c EXCEPT !.apiID = apiID]
    /\ last' = NoLast
    /\ UNCHANGED <<now, doVars>>

SetAPIKey(apiKey) ==
    /\ c' = [c EXCEPT !.apiKey = apiKey]
    /\ last' = NoLast
    /\ UNCHANGED <<now, doVars>>

SetMediaType(m) ==
    /\ c' = [c EXCEPT !.mediaType = m]
    /\ last' = NoLast
    /\ UNCHANGED <<now, doVars>>

SetCharset(cs) ==
    /\ c' = [c EXCEPT !.charset = cs]
    /\ last' = NoLast
    /\ UNCHANGED <<now, doVars>>

SetUserAgent(ua) ==
    /\ c' = [c EXCEPT !.userAgent = ua]
    /\ last' = NoLast
    /\ UNCHANGED <<now, doVars>>

\* The getters. MediaType, Charset and UserAgent return the package
\* constants, not the fields (client.go:132-150).
APIID == c.apiID
APIKey == c.apiKey
MediaType == mediaType
Charset == charset
UserAgent == userAgent

\* ------------------------------------------------------------------------
\* Signature engine (client.go:152-164)
\* ------------------------------------------------------------------------

\* One second of wall-clock time, in ticks of the model's clock.
TicksPerSecond == 2

\* DateTime.String(): the formatted instant. DateTime is declared outside
\* client.go; the format has second resolution and depends on the instant
\* alone.
DateTimeString(t) == "ts" \o ToString(t \div TicksPerSecond)

\* time passes
Tick ==
    /\ now < MaxClock
    /\ now' = now + 1
    /\ UNCHANGED <<c, last, doVars>>

GenerateTimestamp == now

\* hmac.New(sha256.New, key); h.Write(data); h.Sum(nil): a symbolic MAC,
\* equal exactly when key and data are equal.
HMACSHA256(key, data) == [mac |-> "hmac-sha256", key |-> key, data |-> data]

\* base64.StdEncoding.EncodeToString: a symbolic, injective encoding
Base64StdEncode(x) == [enc |-> "base64-std", of |-> x]

\* faulty variant: the timestamp and the identifier are written in the other order
GenerateSignatureSwapped(timestamp, body) ==
    Base64StdEncode(HMACSHA256(APIKey, DateTimeString(timestamp) \o APIID \o body))

GenerateSignature(timestamp, body) ==
    Base64StdEncode(HMACSHA256(APIKey, APIID \o DateTimeString(timestamp) \o body))

\* ------------------------------------------------------------------------
\* Endpoint resolver (client.go:170-188, 400-402)
\* ------------------------------------------------------------------------

\* A path template is a sequence of pieces: literal text, the action
\* {{.name}}, or an action whose closing delimiter is missing.
Field(name) == [k |-> "field", name |-> name]
Unclosed == [k |-> "unclosed"]

ParamNames == {"id", "sub"}
ParamValues == {"42", "x7"}

\* PathParams.Params(): a map[string]string
PathParams == UNION {[D -> ParamValues] : D \in SUBSET ParamNames}

PathTemplates ==
    { <<Text("invoices")>>,
      <<Text("invoices/"), Field("id")>>,
      <<Text("customers/"), Field("id"), Text("/items/"), Field("sub")>>,
      <<Text("invoices/"), Unclosed>> }

\* template.New(...).Parse(text): fails on a malformed action
TemplateParse(text) ==
    IF \E i \in 1..Len(text) : text[i].k = "unclosed"
    THEN [err |-> Err("template: unclosed action")]
    ELSE [err |-> nil, tmpl |-> text]

\* What text/template writes for one piece. A key the map lacks is not an
\* error under the default option missingkey=default: the action evaluates
\* to the invalid value, which prints as "<no value>".
ExecutePiece(piece, params) ==
    IF piece.k = "text" THEN piece
    ELSE IF piece.name \in DOMAIN params THEN Text(params[piece.name])
    ELSE Text("<no value>")

\* tmpl.Execute(buf, params)
TemplateExecute(tmpl, params) ==
    [err |-> nil,
     out |-> [i \in 1..Len(tmpl) |-> ExecutePiece(tmpl[i], params)]]

\* The value of a call of GetEndpointURL: the URL it returns, or fatal when
\* log.Fatal ends the process.
EndpointURL(path, params) ==
    LET clientURL == [c.baseURL EXCEPT !.Path = c.baseURL.Path \o path]
        parsed == TemplateParse(clientURL.Path)
    IN  IF parsed.err # nil THEN [fatal |-> TRUE]
        ELSE LET done == TemplateExecute(parsed.tmpl, params)
             IN  IF done.err # nil THEN [fatal |-> TRUE]
                 ELSE [fatal |-> FALSE,
                       url |-> [clientURL EXCEPT !.Path = done.out]]

GetEndpointURL(path, pathParams) ==
    /\ Idle
    /\ last' = [op |-> "GetEndpointURL", path |-> path,
                params |-> pathParams, out |-> EndpointURL(path, pathParams)]
    /\ UNCHANGED <<c, now, doVars>>

\* ------------------------------------------------------------------------
\* Request builder (client.go:190-228)
\* ------------------------------------------------------------------------

\* Body values handed to NewRequest: none, a struct, a string, and a value
\* encoding/json cannot serialize (a channel).
Bodies == {nil, [t |-> "struct", id |-> 7], [t |-> "string", s |-> "memo"],
           [t |-> "chan"]}

\* json.NewEncoder(buf).Encode(body): the JSON text followed by a newline
JSONEncode(body) ==
    CASE body.t = "struct" ->
            [err |-> nil, out |-> "{\"id\":" \o ToString(body.id) \o "}\n"]
      [] body.t = "string" ->
            [err |-> nil, out |-> "\"" \o body.s \o "\"\n"]
      [] OTHER -> [err |-> Err("json: unsupported type")]

Methods == {"GET", "POST", "BAD METHOD"}

\* http.NewRequest rejects a method that is not a token
ValidMethod(method) == method \in {"GET", "POST"}

Contexts == {nil, [t |-> "ctx", name |-> "caller"]}

URLs == { [BaseURL EXCEPT !.Path = @ \o <<Text("invoices")>>],
          [BaseURL EXCEPT !.Path = @ \o <<Text("invoices")>>,
                          !.RawQuery = << <<"page", "2">> >>] }

\* utils.AddURLValuesToRequest(values, req, true): the values are appended
\* to the query parameters the request URL already has.
AddURLValuesToRequest(values, req) ==
    [req EXCEPT !.URL.RawQuery = @ \o values]

\* The two results (req, err) of a call of NewRequest at clock reading t.
BuildRequest(ctx, method, URL, body, t) ==
    LET enc == IF body # nil THEN JSONEncode(body) ELSE [err |-> nil, out |-> ""]
    IN  IF enc.err # nil THEN [req |-> nil, err |-> enc.err]
        ELSE IF ~ValidMethod(method)
        THEN [req |-> nil, err |-> Err("net/http: invalid method")]
        ELSE
          LET buf == enc.out
              req0 == [Method |-> method, URL |-> URL, Body |-> buf,
                       Header |-> <<>>, ctx |-> [t |-> "ctx", name |-> "background"]]
              timestamp == t
              values == << <<"ApiId", APIID>>,
                           <<"timestamp", DateTimeString(timestamp)>>,
                           <<"signature", GenerateSignature(timestamp, buf)>> >>
              req1 == AddURLValuesToRequest(values, req0)
              req2 == IF ctx # nil THEN [req1 EXCEPT !.ctx = ctx] ELSE req1
              req3 == [req2 EXCEPT !.Header =
                         << <<"Content-Type", MediaType \o "; charset=" \o Charset>>,
                            <<"Accept", MediaType>>,
                            <<"User-Agent", UserAgent>> >>]
          IN  [req |-> req3, err |-> nil]

NewRequest(ctx, method, URL, body) ==
    /\ Idle
    /\ last' = [op |-> "NewRequest", ctx |-> ctx,
                method |-> method, url |-> URL, body |-> body,
                out |-> BuildRequest(ctx, method, URL, body, GenerateTimestamp)]
    /\ UNCHANGED <<c, now, doVars>>

\* ------------------------------------------------------------------------
\* Responses: status, Content-Type header, body bytes and body stream
\* ------------------------------------------------------------------------

StatusCodes == {199, 200, 299, 300, 404, 500}

\* http.Response.Status, the status line of the response
Status(code) ==
    CASE code = 200 -> "200 OK"
      [] code = 300 -> "300 Multiple Choices"
      [] code = 404 -> "404 Not Found"
      [] code = 500 -> "500 Internal Server Error"
      [] OTHER -> ToString(code) \o " "

\* A Content-Type header value, as the sequence of its lexical pieces; the
\* empty sequence is the absent header (Header.Get returns "").
ContentTypes ==
    { <<>>,
      <<"application/json">>,
      <<"application/json", ";", " charset=utf-8">>,
      <<"text/html">>,
      <<"text/html", ";", " charset=utf-8">> }

\* The bytes of a response body as the JSON text they form: no bytes at all,
\* bytes that are not JSON, a JSON array, or a JSON object with the members
\* "message", "MessageDetail" and one further member "extra".
Absent == [v |-> "absent"]
Str(s) == [v |-> "string", s |-> s]
Num == [v |-> "number"]

NoBytes == [j |-> "empty"]
NotJSON == [j |-> "invalid"]
JSONArray == [j |-> "array"]
JSONObject(m, d, x) ==
    [j |-> "object", message |-> m, MessageDetail |-> d, extra |-> x]

BodyTexts ==
    {NoBytes, NotJSON, JSONArray} \cup
    { JSONObject(m, d, x) : m \in {Absent, Str("Not found"), Num},
                            d \in {Absent, Str("no such id")},
                            x \in {Absent, Num} }

\* len(data)
ByteLen(data) == IF data = NoBytes THEN 0 ELSE 1

\* The body stream of the transport: its bytes, whether reading it fails
\* before the bytes are complete, whether closing it fails, and what has
\* happened to it so far.
NewWire(data, readFails, closeFails) ==
    [data |-> data, readFails |-> readFails, closeFails |-> closeFails,
     consumed |-> FALSE, closeCalls |-> 0]

NoWire == [data |-> NoBytes, readFails |-> FALSE, closeFails |-> FALSE,
           consumed |-> FALSE, closeCalls |-> 0]

\* r.Body is either the transport's stream or an in-memory copy wrapped in a
\* NopCloser.
WireBody == [kind |-> "wire"]
NopCloser(data) == [kind |-> "NopCloser", data |-> data]

\* Reading a body to its end (ioutil.ReadAll, bytes.Buffer.ReadFrom, the
\* reads of a json.Decoder): the bytes, the error, and the stream and body
\* afterwards. A failed read of the transport's stream stays failed, and a
\* closed stream cannot be read.
ReadToEnd(body, w) ==
    IF body.kind = "wire"
    THEN IF w.closeCalls > 0
         THEN [data |-> NoBytes, err |-> Err("http: read on closed response body"),
               body |-> body, wire |-> w]
         ELSE IF w.readFails
         THEN [data |-> NoBytes, err |-> Err("unexpected EOF"),
               body |-> body, wire |-> w]
         ELSE [data |-> IF w.consumed THEN NoBytes ELSE w.data, err |-> nil,
               body |-> body, wire |-> [w EXCEPT !.consumed = TRUE]]
    ELSE [data |-> body.data, err |-> nil,
          body |-> NopCloser(NoBytes), wire |-> w]

\* body.Close(): the error, and the stream afterwards
Close(body, w) ==
    IF body.kind = "wire"
    THEN [err |-> IF w.closeFails THEN Err("close failed") ELSE nil,
          wire |-> [w EXCEPT !.closeCalls = @ + 1]]
    ELSE [err |-> nil, wire |-> w]

\* ------------------------------------------------------------------------
\* Error values (client.go:350-388)
\* ------------------------------------------------------------------------

\* type Error struct{Message, MessageDetail}
Error(m, d) == [t |-> "Error", Message |-> m, MessageDetail |-> d]

\* faulty variant: detail and message change places
ErrorStringSwapped(e) ==
    IF e.t = "Error" THEN e.MessageDetail \o ": " \o e.Message ELSE e.msg

\* err.Error() of one entry: Error.Error() (client.go:362-364) for an Error,
\* the message for any other error
ErrorString(e) ==
    IF e.t = "Error" THEN e.Message \o ": " \o e.MessageDetail ELSE e.msg

\* type ErrorResponse struct{Response, Errors}; Response is the pointer r
ErrorResponse(r, errs) == [t |-> "ErrorResponse", Response |-> r, Errors |-> errs]

\* strings.Join(str, sep)
RECURSIVE Join(_, _)
Join(str, sep) ==
    IF Len(str) = 0 THEN ""
    ELSE IF Len(str) = 1 THEN str[1]
    ELSE str[1] \o sep \o Join(Tail(str), sep)

Panic(msg) == [t |-> "panic", msg |-> msg]

\* ErrorResponse.Error() (client.go:378-388): the joined messages, or the
\* run-time panic of indexing an empty slice
ErrorResponseError(r) ==
    IF Len(r.Errors) > 0
    THEN [t |-> "string",
          s |-> Join([i \in 1..Len(r.Errors) |-> ErrorString(r.Errors[i])], ", ")]
    ELSE Panic("index out of range [0] with length 0")

\* The value of e.Error() for an error value Do can return
Describe(e) ==
    IF e.t = "ErrorResponse" THEN ErrorResponseError(e)
    ELSE [t |-> "string", s |-> e.msg]

\* json.Unmarshal(data, &e) for e of type Error: unknown members are
\* ignored, absent members leave the zero value, a member of the wrong JSON
\* type is an error
UnmarshalError(data) ==
    CASE data.j \in {"empty", "invalid"} ->
            [err |-> Err("json: syntax error")]
      [] data.j = "array" ->
            [err |-> Err("json: cannot unmarshal array into Go value of type Error")]
      [] OTHER ->
            IF data.message.v = "number" \/ data.MessageDetail.v = "number"
            THEN [err |-> Err("json: cannot unmarshal number into Go struct field of type string")]
            ELSE [err |-> nil,
                  e |-> Error(IF data.message.v = "string" THEN data.message.s ELSE "",
                              IF data.MessageDetail.v = "string"
                              THEN data.MessageDetail.s ELSE "")]

\* faulty variant: the decoded Error is not appended
UnmarshalJSONDropped(r, data) ==
    LET got == UnmarshalError(data)
    IN  IF got.err # nil THEN [err |-> got.err, r |-> r]
        ELSE [err |-> nil, r |-> r]

\* (r *ErrorResponse) UnmarshalJSON(data) (client.go:366-376): the error and
\* the ErrorResponse afterwards
UnmarshalJSON(r, data) ==
    LET got == UnmarshalError(data)
    IN  IF got.err # nil THEN [err |-> got.err, r |-> r]
        ELSE [err |-> nil, r |-> [r EXCEPT !.Errors = Append(@, got.e)]]

\* json.Unmarshal(data, errorResponse): the text is validated, then handed
\* to UnmarshalJSON
Unmarshal(data, r) ==
    IF data.j \in {"empty", "invalid"}
    THEN [err |-> Err("json: syntax error"), r |-> r]
    ELSE UnmarshalJSON(r, data)

\* ------------------------------------------------------------------------
\* Response normalizer (client.go:305-348, 390-398)
\* ------------------------------------------------------------------------

\* strings.Split(header, ";")[0]
RECURSIVE SplitFirst(_)
SplitFirst(header) ==
    IF Len(header) = 0 \/ header[1] = ";" THEN ""
    ELSE header[1] \o SplitFirst(Tail(header))

\* faulty variant: every content type is accepted
checkContentTypeAny(response) == nil

\* checkContentType(response): nil or the mismatch error
checkContentType(response) ==
    LET contentType == SplitFirst(response.ContentType)
    IN  IF contentType # mediaType
        THEN Err("Expected Content-Type \"" \o mediaType \o "\", got \""
                 \o contentType \o "\"")
        ELSE nil

\* CheckResponse(r) with r.Body reading from stream w: the error returned,
\* r.Body and the stream afterwards, and what was done to the body.
CheckResponse(r, w) ==
    LET errorResponse == ErrorResponse(r.ptr, <<>>)
        unchanged == [body |-> r.Body, wire |-> w, events |-> <<>>]
    IN  IF r.StatusCode >= 200 /\ r.StatusCode <= 299
        THEN [err |-> nil] @@ unchanged
        ELSE IF checkContentType(r) # nil
        THEN [err |-> [errorResponse EXCEPT !.Errors = Append(@, Err(r.Status))]]
             @@ unchanged
        ELSE
          LET read == ReadToEnd(r.Body, w)
              data == read.data
              after == [body |-> NopCloser(data), wire |-> read.wire]
              readEvent == [ev |-> "ReadAll", by |-> "CheckResponse", err |-> read.err]
          IN  IF read.err # nil
              THEN [err |-> errorResponse, events |-> <<readEvent>>] @@ after
              ELSE IF ByteLen(data) = 0
              THEN [err |-> errorResponse, events |-> <<readEvent>>] @@ after
              ELSE
                LET um == Unmarshal(data, errorResponse)
                    umEvent == [ev |-> "Unmarshal", by |-> "CheckResponse",
                                err |-> um.err]
                IN  [err |-> IF um.err # nil
                             THEN [um.r EXCEPT !.Errors = Append(@, um.err)]
                             ELSE um.r,
                     events |-> <<readEvent, umEvent>>] @@ after

\* ------------------------------------------------------------------------
\* Do (client.go:233-303)
\* ------------------------------------------------------------------------

Requests == {"req1", "req2"}

\* responseBody: nil, or a pointer to a struct with the string fields
\* "message" and "MessageDetail"
Destinations == {nil, [t |-> "dest"]}

\* dec.Decode(responseBody) on the bytes the decoder could read: io.EOF when
\* there are none, otherwise as json.Unmarshal, with members the destination
\* lacks rejected under DisallowUnknownFields
EOF == Err("EOF")

Decode(read, strict) ==
    LET data == read.data
    IN  CASE read.err # nil -> read.err
          [] data.j = "empty" -> EOF
          [] data.j = "invalid" -> Err("json: syntax error")
          [] data.j = "array" ->
                Err("json: cannot unmarshal array into Go value")
          [] OTHER ->
                IF data.message.v = "number" \/ data.MessageDetail.v = "number"
                THEN Err("json: cannot unmarshal number into Go struct field of type string")
                ELSE IF strict /\ data.extra.v # "absent"
                THEN Err("json: unknown field \"extra\"")
                ELSE nil

NoCall == [req |-> "none", responseBody |-> nil]
NoResp == [ptr |-> nil]
NoRet == [resp |-> nil, err |-> nil]
NotDescribed == [t |-> "none"]

\* lines 234-242: the request is dumped when debugging and handed to the
\* transport, which fails or answers.
DoSendFails(req, responseBody) ==
    /\ pc = "idle"
    /\ call' = [req |-> req, responseBody |-> responseBody]
    /\ httpResp' = NoResp
    /\ err' = Err("transport error")
    /\ ret' = [resp |-> nil, err |-> Err("transport error")]
    /\ log' = <<[ev |-> "RoundTrip", err |-> Err("transport error")]>>
    /\ pc' = "returned"
    /\ UNCHANGED <<c, requestVars, wire, described>>

DoSend(req, responseBody, code, contentType, data, readFails, closeFails) ==
    /\ pc = "idle"
    /\ call' = [req |-> req, responseBody |-> responseBody]
    /\ httpResp' = [ptr |-> [t |-> "response", to |-> req],
                    StatusCode |-> code, Status |-> Status(code),
                    ContentType |-> contentType, Body |-> WireBody]
    /\ wire' = NewWire(data, readFails, closeFails)
    /\ err' = nil
    /\ log' = <<[ev |-> "RoundTrip", err |-> nil]>>
    /\ pc' = "callback"
    /\ UNCHANGED <<c, requestVars, ret, described>>

\* faulty variant: the callback is not invoked
DoCallbackSkipped ==
    /\ pc = "callback"
    /\ pc' = "dump"
    /\ UNCHANGED <<c, requestVars, call, httpResp, wire, err, ret, log, described>>

\* lines 244-253: the completion callback, then the deferred close is
\* registered
DoCallback ==
    /\ pc = "callback"
    /\ log' = IF c.onRequestCompleted # nil
              THEN Append(log, [ev |-> "onRequestCompleted", req |-> call.req,
                                resp |-> httpResp.ptr])
              ELSE log
    /\ pc' = "dump"
    /\ UNCHANGED <<c, requestVars, call, httpResp, wire, err, ret, described>>

\* httputil.DumpResponse(httpResp, true): drainBody reads the body to its
\* end and closes it, and the response is left with an in-memory copy; when
\* the read or the close fails the body is left in place.
DumpResponse(r, w) ==
    LET read == ReadToEnd(r.Body, w)
        readEvent == [ev |-> "ReadAll", by |-> "DumpResponse", err |-> read.err]
    IN  IF read.err # nil
        THEN [body |-> r.Body, wire |-> read.wire, events |-> <<readEvent>>]
        ELSE
          LET closed == Close(r.Body, read.wire)
              closeEvent == [ev |-> "Close", by |-> "DumpResponse", err |-> closed.err]
          IN  IF closed.err # nil
              THEN [body |-> r.Body, wire |-> closed.wire,
                    events |-> <<readEvent, closeEvent>>]
              ELSE [body |-> NopCloser(read.data), wire |-> closed.wire,
                    events |-> <<readEvent, closeEvent>>]

\* lines 255-258
DoDumpResponse ==
    /\ pc = "dump"
    /\ IF c.debug
       THEN LET d == DumpResponse(httpResp, wire)
            IN  /\ httpResp' = [httpResp EXCEPT !.Body = d.body]
                /\ wire' = d.wire
                /\ log' = log \o d.events
       ELSE UNCHANGED <<httpResp, wire, log>>
    /\ pc' = "check"
    /\ UNCHANGED <<c, requestVars, call, err, ret, described>>

\* lines 260-264
DoCheckResponse ==
    /\ pc = "check"
    /\ LET chk == CheckResponse(httpResp, wire)
       IN  /\ httpResp' = [httpResp EXCEPT !.Body = chk.body]
           /\ wire' = chk.wire
           /\ log' = log \o chk.events
           /\ err' = chk.err
           /\ IF chk.err # nil
              THEN /\ ret' = [resp |-> httpResp.ptr, err |-> chk.err]
                   /\ pc' = "defer"
              ELSE /\ ret' = ret
                   /\ pc' = "decode"
    /\ UNCHANGED <<c, requestVars, call, described>>

\* lines 266-302
DoDecode ==
    /\ pc = "decode"
    /\ IF call.responseBody = nil
       THEN /\ ret' = [resp |-> httpResp.ptr, err |-> err]
            /\ UNCHANGED <<httpResp, wire, err, log>>
       ELSE LET read == ReadToEnd(httpResp.Body, wire)
                derr == Decode(read, c.disallowUnknownFields)
            IN  /\ httpResp' = [httpResp EXCEPT !.Body = read.body]
                /\ wire' = read.wire
                /\ err' = derr
                /\ log' = Append(log, [ev |-> "Decode", by |-> "Do", err |-> derr])
                /\ ret' = IF derr # nil /\ derr # EOF
                          THEN [resp |-> httpResp.ptr,
                                err |-> ErrorResponse(httpResp.ptr, <<derr>>)]
                          ELSE [resp |-> httpResp.ptr, err |-> nil]
    /\ pc' = "defer"
    /\ UNCHANGED <<c, requestVars, call, described>>

\* lines 249-253, run as Do returns: the body the response holds now is
\* closed, and the outcome is assigned to the local err. The values to
\* return are already in place.
DoDeferredClose ==
    /\ pc = "defer"
    /\ LET closed == Close(httpResp.Body, wire)
       IN  /\ wire' = closed.wire
           /\ log' = Append(log, [ev |-> "Close", by |-> "Do", err |-> closed.err])
           /\ err' = IF err = nil THEN closed.err ELSE err
    /\ pc' = "returned"
    /\ UNCHANGED <<c, requestVars, call, httpResp, ret, described>>

\* The caller asks the error it received for its message.
CallError ==
    /\ pc = "returned"
    /\ ret.err # nil
    /\ described = NotDescribed
    /\ described' = Describe(ret.err)
    /\ UNCHANGED <<c, requestVars, pc, call, httpResp, wire, err, ret, log>>

\* The caller is done with the results of the call.
Finish ==
    /\ pc = "returned"
    /\ pc' = "idle"
    /\ call' = NoCall
    /\ httpResp' = NoResp
    /\ wire' = NoWire
    /\ err' = nil
    /\ ret' = NoRet
    /\ log' = <<>>
    /\ described' = NotDescribed
    /\ UNCHANGED <<c, requestVars>>

\* ------------------------------------------------------------------------
\* Specifications
\* ------------------------------------------------------------------------

DoInit ==
    /\ pc = "idle"
    /\ call = NoCall
    /\ httpResp = NoResp
    /\ wire = NoWire
    /\ err = nil
    /\ ret = NoRet
    /\ log = <<>>
    /\ described = NotDescribed

Callbacks == {nil, [t |-> "func"]}

\* A client fresh from NewClient, with any credentials.
InitRequest ==
    /\ \E apiID \in APIIDs, apiKey \in APIKeys : c = NewClient(apiID, apiKey, nil)
    /\ now = 0
    /\ last = NoLast
    /\ DoInit

NextRequest ==
    \/ \E apiID \in APIIDs : SetAPIID(apiID)
    \/ \E apiKey \in APIKeys : SetAPIKey(apiKey)
    \/ \E m \in MediaTypes : SetMediaType(m)
    \/ \E cs \in Charsets : SetCharset(cs)
    \/ \E ua \in UserAgents : SetUserAgent(ua)
    \/ Tick
    \/ \E path \in PathTemplates, params \in PathParams : GetEndpointURL(path, params)
    \/ \E ctx \in Contexts, method \in Methods, URL \in URLs, body \in Bodies :
          NewRequest(ctx, method, URL, body)

SpecRequest == InitRequest /\ [][NextRequest]_vars

\* A client fresh from NewClient, with or without a completion callback.
InitDo ==
    /\ \E cb \in Callbacks : c = NewClient("id-A", "key-1", cb)
    /\ now = 0
    /\ last = NoLast
    /\ DoInit

NextDo ==
    \/ \E b \in BOOLEAN : SetDebug(b)
    \/ \E b \in BOOLEAN : SetDisallowUnknownFields(b)
    \/ /\ Idle
       /\ \E req \in Requests, responseBody \in Destinations :
             DoSendFails(req, responseBody)
    \/ /\ Idle
       /\ \E req \in Requests, responseBody \in Destinations, code \in StatusCodes,
             contentType \in ContentTypes, data \in BodyTexts,
             readFails \in BOOLEAN, closeFails \in BOOLEAN :
             DoSend(req, responseBody, code, contentType, data, readFails, closeFails)
    \/ DoCallback
    \/ DoDumpResponse
    \/ DoCheckResponse
    \/ DoDecode
    \/ DoDeferredClose
    \/ CallError
    \/ Finish

SpecDo == InitDo /\ [][NextDo]_vars

\* ------------------------------------------------------------------------
\* Properties of the request side (specification SpecRequest)
\* ------------------------------------------------------------------------

\* the value of the first query parameter / header called name
ValueOf(pairs, name) ==
    pairs[CHOOSE i \in 1..Len(pairs) :
            /\ pairs[i][1] = name
            /\ \A j \in 1..(i - 1) : pairs[j][1] # name][2]

Built == last.op = "NewRequest" /\ last.out.err = nil

\* C1: the signature parameter of a built request is
\* base64(HMAC-SHA256(API key, API id || T || B)) for T the request's own
\* timestamp parameter and B the request's own body bytes, which are the one
\* serialization of the body value.
SignatureCoversTransmittedBytes ==
    Built =>
      LET req == last.out.req
          T == ValueOf(req.URL.RawQuery, "timestamp")
          B == req.Body
      IN  /\ ValueOf(req.URL.RawQuery, "signature") =
                Base64StdEncode(HMACSHA256(c.apiKey,
                                           c.apiID \o T \o B))
          /\ ValueOf(req.URL.RawQuery, "ApiId") = c.apiID
          /\ B = IF last.body = nil THEN "" ELSE JSONEncode(last.body).out

\* a request with a body, built after the clock has passed its first second
SignedRequestWithBody ==
    /\ Built
    /\ last.body = [t |-> "struct", id |-> 7]
    /\ last.out.req.Body = "{\"id\":7}\n"
    /\ ValueOf(last.out.req.URL.RawQuery, "timestamp") = "ts1"
    /\ last.url.RawQuery # <<>>

\* the names a path template refers to
Referenced(path) == {path[i].name : i \in {j \in 1..Len(path) : path[j].k = "field"}}

WellFormed(path) == \A i \in 1..Len(path) : path[i].k # "unclosed"

\* C7: for a well-formed template, GetEndpointURL returns a URL without
\* placeholders when the mapping supplies every referenced parameter, and
\* fails, returning no URL, when the mapping omits one.
MissingParameterIsConstructionError ==
    (last.op = "GetEndpointURL" /\ WellFormed(last.path)) =>
      IF Referenced(last.path) \subseteq DOMAIN last.params
      THEN /\ ~last.out.fatal
           /\ \A i \in 1..Len(last.out.url.Path) : last.out.url.Path[i].k = "text"
      ELSE last.out.fatal

\* C8: a built request carries the media type, charset and user agent most
\* recently configured on the client.
HeadersFollowConfiguration ==
    Built =>
      LET h == last.out.req.Header
      IN  /\ ValueOf(h, "Content-Type") =
                c.mediaType \o "; charset=" \o c.charset
          /\ ValueOf(h, "Accept") = c.mediaType
          /\ ValueOf(h, "User-Agent") = c.userAgent

\* ------------------------------------------------------------------------
\* Properties of Do and CheckResponse (specification SpecDo)
\* ------------------------------------------------------------------------

\* Do has executed its return statement
Returning == pc \in {"defer", "returned"}

Answered == httpResp # NoResp

Non2xx == Answered /\ ~(httpResp.StatusCode >= 200 /\ httpResp.StatusCode <= 299)

\* the Content-Type, ignoring anything after ';', is application/json
IsJSONType == SplitFirst(httpResp.ContentType) = "application/json"

Events(kinds) == {i \in 1..Len(log) : log[i].ev \in kinds}

\* CheckResponse read the whole body without error
BodyReadByCheckResponse ==
    \E i \in 1..Len(log) :
        log[i].ev = "ReadAll" /\ log[i].by = "CheckResponse" /\ log[i].err = nil

\* C2 as stated: a non-2xx response always gives an ErrorResponse with at
\* least one entry.
Non2xxHasEntries ==
    (Returning /\ Non2xx) =>
      /\ ret.err.t = "ErrorResponse"
      /\ Len(ret.err.Errors) >= 1

\* C2 as amended: a non-2xx response always gives an ErrorResponse holding
\* the response; it has at least one entry when the content type is not
\* application/json or when the body was read without error and is not
\* empty, and no entry when the content type is application/json and the
\* body is empty or could not be read.
Non2xxGivesErrorResponse ==
    (Returning /\ Non2xx) =>
      /\ ret.err.t = "ErrorResponse"
      /\ ret.err.Response = httpResp.ptr
      /\ Len(ret.err.Errors) >= 1 <=>
            \/ ~IsJSONType
            \/ BodyReadByCheckResponse /\ ByteLen(wire.data) > 0

\* status 404, application/json, no body: an ErrorResponse without entries
EmptyErrorBodyReturned ==
    /\ pc = "returned"
    /\ Answered
    /\ httpResp.StatusCode = 404
    /\ httpResp.ContentType = <<"application/json">>
    /\ wire.data = NoBytes
    /\ ~wire.readFails
    /\ ret.err = ErrorResponse(httpResp.ptr, <<>>)

\* C3: a non-2xx response of another content type gives exactly one entry,
\* the status line, and CheckResponse neither reads nor decodes the body.
UnexpectedTypeGivesStatusLine ==
    (Returning /\ Non2xx /\ ~IsJSONType) =>
      /\ ret.err.t = "ErrorResponse"
      /\ Len(ret.err.Errors) = 1
      /\ ErrorString(ret.err.Errors[1]) = httpResp.Status
      /\ \A i \in 1..Len(log) :
            log[i].ev \in {"ReadAll", "Unmarshal"} => log[i].by # "CheckResponse"
      /\ ~c.debug => (httpResp.Body = WireBody /\ ~wire.consumed)

\* status 500 with Content-Type text/html and a body that is not JSON
HTMLErrorReturned ==
    /\ pc = "returned"
    /\ Answered
    /\ httpResp.StatusCode = 500
    /\ httpResp.ContentType = <<"text/html">>
    /\ wire.data = NotJSON
    /\ described = [t |-> "string", s |-> "500 Internal Server Error"]

IsErrorObject(data) ==
    data.j = "object" /\ data.message.v = "string" /\ data.MessageDetail.v = "string"

\* C4: a non-2xx application/json response whose body, read without error,
\* is the object {"message": m, "MessageDetail": d} gives exactly one entry,
\* described as "m: d", in an ErrorResponse that holds the response itself.
ErrorObjectGivesOneEntry ==
    (Returning /\ Non2xx /\ IsJSONType /\ IsErrorObject(wire.data)
       /\ BodyReadByCheckResponse) =>
      /\ ret.err.t = "ErrorResponse"
      /\ Len(ret.err.Errors) = 1
      /\ ErrorString(ret.err.Errors[1]) =
            wire.data.message.s \o ": " \o wire.data.MessageDetail.s
      /\ ret.err.Response = httpResp.ptr
      /\ ret.resp = httpResp.ptr

\* status 404 with the error object of the service
NotFoundReturned ==
    /\ pc = "returned"
    /\ Answered
    /\ httpResp.StatusCode = 404
    /\ httpResp.ContentType = <<"application/json", ";", " charset=utf-8">>
    /\ wire.data = JSONObject(Str("Not found"), Str("no such id"), Absent)
    /\ ret.err.Errors = <<Error("Not found", "no such id")>>
    /\ described = [t |-> "string", s |-> "Not found: no such id"]

\* C5: when the transport returned a response, the body it handed out has
\* been closed by the time Do returns.
TransportBodyClosed ==
    (pc = "returned" /\ Answered) => wire.closeCalls >= 1

BodyEvents == {"ReadAll", "Unmarshal", "Decode", "Close"}

CallbackConfigured == c.onRequestCompleted # nil

\* the callback ran with the request and the response of this call, before
\* anything touched the response body
CallbackFirst ==
    /\ \A i \in Events({"onRequestCompleted"}) :
          log[i].req = call.req /\ log[i].resp = httpResp.ptr
    /\ \A i \in Events(BodyEvents) :
          \E j \in Events({"onRequestCompleted"}) : j < i

\* C6 as stated: a configured callback is fired exactly once per request
\* passed to Do, with the request and the response, before the body is read
\* or decoded.
CallbackOncePerRequest ==
    (pc = "returned" /\ CallbackConfigured) =>
      /\ Cardinality(Events({"onRequestCompleted"})) = 1
      /\ CallbackFirst

\* C6 as amended: a configured callback is fired exactly once per request
\* for which the transport returned a response, with the request and the
\* response, before the body is read or decoded; it is not fired when the
\* transport fails.
CallbackOncePerResponse ==
    CallbackConfigured =>
      /\ CallbackFirst
      /\ (pc = "returned") =>
            Cardinality(Events({"onRequestCompleted"})) = IF Answered THEN 1 ELSE 0
      /\ (pc \in {"dump", "check", "decode", "defer"}) =>
            Cardinality(Events({"onRequestCompleted"})) = 1

\* a call with a callback configured that went on to decode the body
CallbackThenDecode ==
    /\ pc = "returned"
    /\ CallbackConfigured
    /\ Len(log) >= 2
    /\ log[2] = [ev |-> "onRequestCompleted", req |-> "req2",
                 resp |-> [t |-> "response", to |-> "req2"]]
    /\ Events({"Decode"}) # {}

\* the failures of a call: a failed round trip, read, decode (other than a
\* clean end of input) or close in Do or CheckResponse
Failures ==
    {i \in 1..Len(log) :
        /\ log[i].ev \in {"RoundTrip", "ReadAll", "Unmarshal", "Decode", "Close"}
        /\ log[i].ev # "RoundTrip" => log[i].by \in {"Do", "CheckResponse"}
        /\ log[i].err # nil
        /\ ~(log[i].ev = "Decode" /\ log[i].err = EOF)}

\* error e is, or holds among its entries, the error f
Carries(e, f) ==
    \/ e = f
    \/ /\ e.t = "ErrorResponse"
       /\ \E k \in 1..Len(e.Errors) : e.Errors[k] = f

\* C9: every failure inside Do is reflected in the error Do returns.
FailuresAreReturned ==
    (pc = "returned") =>
      \A i \in Failures : ret.err # nil /\ Carries(ret.err, log[i].err)

\* C10: Error() on any error value Do returned yields a message.
ErrorAlwaysDescribes ==
    (pc = "returned" /\ described # NotDescribed) => described.t = "string"

====
